---------------------------- MODULE Spec2Model ----------------------------
(***************************************************************************)
(* A model of romanz/bench-rest: the undo-record decoder of                *)
(* src/bin/bench.rs and src/bin/blockundo.rs, the plain spent-output       *)
(* decoder of src/bin/bench.rs and src/bin/spenttxouts.rs, and the main    *)
(* loops that feed them.                                                   *)
(*                                                                         *)
(* u64/usize values are kept at their width: a value is a little-endian    *)
(* tuple of 16-bit limbs (4 limbs for u64, 8 for u128), because the        *)
(* decoder's arithmetic (n << 7, n += 1, n *= 10) is sensitive to the      *)
(* width.  Where Rust's result depends on the build (overflow checks on:   *)
(* panic, off: wrap modulo 2^64) the model takes either outcome.           *)
(***************************************************************************)
EXTENDS Integers, Sequences, FiniteSets, TLC

VARIABLES
    \* ---- varint_decode on one byte stream (SpecVarint)
    v_bytes,        \* the bytes u8::consensus_decode has handed out so far
    v_n,            \* the accumulator n
    v_out,          \* "reading" | "returned" | "truncated" | "panic"
    \* ---- decompress_amount on one input (SpecAmount)
    a_x,            \* the argument x
    a_out,          \* "called" | "returned" | "panic" with the value
    \* ---- one block's buffer through a decoder and its caller (Spec)
    entry,          \* which main and which decoder handles the buffer
    size,           \* data.len()
    pos,            \* the Cursor's position
    pc,             \* the statement the decoder is at
    tx_count,       \* let tx_count
    tx_i,           \* turns of `for _ in 0..tx_count` started
    txin_count,     \* let txin_count
    txin_j,         \* turns of `for _ in 0..txin_count` started
    stats,          \* the caller's Stats
    script,         \* the ScriptBuf script_decode returned last
    result,         \* "running" | "ok" | "err" | "panic"
    failure,        \* the error or the panic
    accepted,       \* "pending" | "yes" | "no": the caller goes on to the next block
    stats0,         \* Stats when the current record's first byte was about to be read
    fields,         \* the fields of the current record read so far, in order
    amount,         \* the compressed amount varint_decode returned last
    len,            \* script_decode's let len
    claimed,        \* the sum of the input counts read so far
    eof,            \* a read has met the end of the buffer
    \* ---- the main loop of blockundo.rs and spenttxouts.rs (SpecMain)
    m_entry,        \* which main runs
    m_pc,           \* the statement main is at
    height,         \* let mut height
    start_height,   \* let start_height
    offset,         \* the for loop's offset
    fetched         \* the heights asked of blockhashbyheight so far, in order

decode_vars == <<entry, size, pos, pc, tx_count, tx_i, txin_count, txin_j, stats,
                 script, result, failure, accepted, stats0, fields, amount, len,
                 claimed, eof>>
main_vars == <<m_entry, m_pc, height, start_height, offset, fetched>>
vars == <<v_bytes, v_n, v_out, a_x, a_out, decode_vars, main_vars>>
varint_vars == <<v_bytes, v_n, v_out>>
amount_vars == <<a_x, a_out>>

(***************************************************************************)
(* Fixed-width unsigned arithmetic                                         *)
(***************************************************************************)
LimbBase == 65536
U64Limbs == 4
U128Limbs == 8

Zero(k) == [i \in 1..k |-> 0]

\* A natural below 2^31 as a k-limb value (k >= 2).
FromNat(k, n) == [i \in 1..k |-> IF i = 1 THEN n % LimbBase
                                 ELSE IF i = 2 THEN n \div LimbBase ELSE 0]

IsZero(a) == \A i \in 1..Len(a) : a[i] = 0

\* TRUE when the value is below 2^31, so that ToNat is exact.
IsSmall(a) == /\ \A i \in 3..Len(a) : a[i] = 0
              /\ a[2] < 32768

ToNat(a) == a[1] + LimbBase * a[2]

\* a * k + c with the carry out as one more limb on top (k, c < 2^15).
RECURSIVE MulAddC(_, _, _)
MulAddC(a, k, c) ==
    IF a = <<>> THEN <<c>>
    ELSE LET t == Head(a) * k + c
         IN  <<t % LimbBase>> \o MulAddC(Tail(a), k, t \div LimbBase)

Low(r) == SubSeq(r, 1, Len(r) - 1)
CarryOut(r) == r[Len(r)]

\* Long division by a small divisor k, from the top limb down: q holds the
\* quotient's limbs so far and r the remainder carried into the next limb.
RECURSIVE DivLimbs(_, _, _, _)
DivLimbs(a, k, q, r) ==
    IF a = <<>> THEN [q |-> q, r |-> r]
    ELSE LET t == r * LimbBase + a[Len(a)]
         IN  DivLimbs(SubSeq(a, 1, Len(a) - 1), k, <<t \div k>> \o q, t % k)

\* a / k and a % k for a small divisor k.
DivModSmall(a, k) == DivLimbs(a, k, <<>>, 0)

\* a - 1 for a # 0.
RECURSIVE Dec(_)
Dec(a) == IF Head(a) > 0 THEN <<Head(a) - 1>> \o Tail(a)
          ELSE <<LimbBase - 1>> \o Dec(Tail(a))

\* a + b for two values of the same width, carry out on top.
RECURSIVE AddC(_, _, _)
AddC(a, b, c) ==
    IF a = <<>> THEN <<c>>
    ELSE LET t == Head(a) + Head(b) + c
         IN  <<t % LimbBase>> \o AddC(Tail(a), Tail(b), t \div LimbBase)

\* u64 as u128
Widen(a) == a \o Zero(U128Limbs - Len(a))

RECURSIVE BitAnd(_, _)
BitAnd(x, y) == IF x = 0 \/ y = 0 THEN 0
                ELSE (x % 2) * (y % 2) + 2 * BitAnd(x \div 2, y \div 2)

RECURSIVE BitOr(_, _)
BitOr(x, y) == IF x = 0 THEN y
               ELSE IF y = 0 THEN x
               ELSE (IF x % 2 = 1 \/ y % 2 = 1 THEN 1 ELSE 0)
                    + 2 * BitOr(x \div 2, y \div 2)

U64Max == [i \in 1..U64Limbs |-> LimbBase - 1]

(***************************************************************************)
(* varint_decode (bench.rs 11-25, blockundo.rs 13-27)                      *)
(***************************************************************************)
\* n = (n << 7) | (b & 0x7F): the shift drops the bits above bit 63.
ShiftOr(n, b) ==
    LET s == Low(MulAddC(n, 128, 0))
    IN  [s EXCEPT ![1] = BitOr(s[1], BitAnd(b, 127))]

HasMore(b) == BitAnd(b, 128) # 0

\* n += 1: [n, overflow]; the wrapped value is what a build without
\* overflow checks keeps.
Incr(n) == LET r == MulAddC(n, 1, 1)
           IN  [n |-> Low(r), overflow |-> CarryOut(r) # 0]

\* varint_step without the increment on a continuation byte.
varint_step_no_increment(n, b) ==
    [n |-> ShiftOr(n, b), done |-> ~HasMore(b), overflow |-> FALSE]

\* One turn of the loop on byte b: the accumulator after it, whether the
\* loop returns, and whether n += 1 overflowed.
varint_step(n, b) ==
    LET m == ShiftOr(n, b)
    IN  IF HasMore(b)
        THEN [n |-> Incr(m).n, done |-> FALSE, overflow |-> Incr(m).overflow]
        ELSE [n |-> m, done |-> TRUE, overflow |-> FALSE]

(***************************************************************************)
(* decompress_amount (bench.rs 72-96, blockundo.rs 74-98)                  *)
(***************************************************************************)
\* amount_base with the digit d taken as x % 9, without the + 1.
amount_base_digit_off(x, e) ==
    IF e < 9
    THEN LET dm == DivModSmall(x, 9)
         IN  Low(MulAddC(dm.q, 10, dm.r))
    ELSE Low(MulAddC(x, 1, 1))

\* let mut n = if e < 9 { ... x * 10 + d } else { x + 1 }
amount_base(x, e) ==
    IF e < 9
    THEN LET dm == DivModSmall(x, 9)
             d  == dm.r + 1
         IN  Low(MulAddC(dm.q, 10, d))
    ELSE Low(MulAddC(x, 1, 1))

\* while e != 0 { n *= 10; e -= 1; }: the wrapped value and whether any
\* product passed 2^64 - 1 (`over`: one already has).
RECURSIVE amount_scale(_, _, _)
amount_scale(n, e, over) ==
    IF e = 0 THEN [n |-> n, overflow |-> over]
    ELSE LET p == MulAddC(n, 10, 0)
         IN  amount_scale(Low(p), e - 1, over \/ CarryOut(p) # 0)

decompress_amount(x) ==
    IF IsZero(x) THEN [n |-> x, overflow |-> FALSE]
    ELSE LET dm == DivModSmall(Dec(x), 10)
         IN  amount_scale(amount_base(dm.q, dm.r), dm.r, FALSE)


(***************************************************************************)
(* SpecVarint: varint_decode run on one byte stream.  The reader hands out *)
(* each byte once and in order, so the stream's bytes are drawn when they  *)
(* are read.  A stream holds at most MaxVarintLen bytes: its first         *)
(* ShortLen bytes are any of VarintBytes, the later ones any of LongBytes  *)
(* (the bytes that keep every low bit of n set, which is what it takes to  *)
(* bring n to 2^64 - 1 after ten bytes).                                   *)
(***************************************************************************)
MaxVarintLen == 10
ShortLen == 2
VarintBytes == {0, 127, 128, 129, 254, 255}
LongBytes == {0, 254, 255}
BytesAt(k) == IF k < ShortLen THEN VarintBytes ELSE LongBytes

VarintInit ==
    /\ v_bytes = <<>>
    /\ v_n = Zero(U64Limbs)
    /\ v_out = "reading"

\* let b = u8::consensus_decode(d)?  with a byte left, then the loop body.
\* n += 1 on n = 2^64 - 1 panics in a build with overflow checks and wraps
\* to 0 in one without.
VarintByte ==
    /\ v_out = "reading"
    /\ Len(v_bytes) < MaxVarintLen
    /\ \E b \in BytesAt(Len(v_bytes)) :
         LET r == varint_step(v_n, b)
         IN  /\ v_bytes' = Append(v_bytes, b)
             /\ \/ /\ ~r.overflow
                   /\ v_n' = r.n
                   /\ v_out' = IF r.done THEN "returned" ELSE "reading"
                \/ /\ r.overflow
                   /\ v_n' = r.n
                   /\ v_out' = "reading"
                \/ /\ r.overflow
                   /\ v_n' = ShiftOr(v_n, b)
                   /\ v_out' = "panic"
    /\ UNCHANGED <<amount_vars, decode_vars, main_vars>>

\* let b = u8::consensus_decode(d)?  at the end of the stream: the error
\* (an unexpected end of input) is returned by `?`.
VarintEof ==
    /\ v_out = "reading"
    /\ v_out' = "truncated"
    /\ UNCHANGED <<v_bytes, v_n>>
    /\ UNCHANGED <<amount_vars, decode_vars, main_vars>>

(***************************************************************************)
(* SpecAmount: decompress_amount applied to one input.                     *)
(***************************************************************************)
MaxAmountInput == 120

\* 184467440739 and 184467440740: the last input before, and the first
\* input at, which n * 10 passes 2^64 - 1; then inputs up to 2^64 - 1.
BigAmountInputs ==
    { <<50275, 62237, 42, 0>>, <<50276, 62237, 42, 0>>,
      <<0, 0, 1, 0>>, <<0, 0, 0, 1>>,
      <<65534, 65535, 65535, 65535>>, <<65535, 65535, 65535, 65535>> }

AmountInputs == { FromNat(U64Limbs, k) : k \in 0..MaxAmountInput } \cup BigAmountInputs

AmountIdle ==
    /\ a_x = Zero(U64Limbs)
    /\ a_out = [state |-> "idle", n |-> Zero(U64Limbs), wrapped |-> FALSE]

AmountInit ==
    /\ a_x \in AmountInputs
    /\ a_out = [state |-> "called", n |-> Zero(U64Limbs), wrapped |-> FALSE]

\* n *= 10 past 2^64 - 1 panics in a build with overflow checks and wraps
\* in one without.
AmountApply ==
    /\ a_out.state = "called"
    /\ LET r == decompress_amount(a_x)
       IN  \/ /\ ~r.overflow
              /\ a_out' = [state |-> "returned", n |-> r.n, wrapped |-> FALSE]
           \/ /\ r.overflow
              /\ a_out' = [state |-> "returned", n |-> r.n, wrapped |-> TRUE]
           \/ /\ r.overflow
              /\ a_out' = [state |-> "panic", n |-> Zero(U64Limbs), wrapped |-> FALSE]
    /\ UNCHANGED a_x
    /\ UNCHANGED <<varint_vars, decode_vars, main_vars>>


(***************************************************************************)
(* The decoders on one block's buffer.  The Cursor hands out each byte     *)
(* once and in order, so the buffer is its length (size) and the bytes     *)
(* each read finds at the cursor, drawn from the input sets below when the *)
(* read happens; a read that asks for more bytes than are left meets the   *)
(* end of the buffer.                                                      *)
(***************************************************************************)
\* Buffers of every length up to ShortMax, with any counts; and buffers
\* that one record with a 20-byte or a 32-byte payload fits (2 bytes of
\* counts, 4 for the record's varints), with up to MaxTrailing bytes more
\* and counts of 0 or 1.
ShortMax == 11
MaxTrailing == 1
LongSizes == { 6 + n + extra : n \in {20, 32}, extra \in 0..MaxTrailing }
Sizes == 0..ShortMax \cup LongSizes

Entries == {"bench_blockundo", "bench_spenttxouts", "blockundo", "spenttxouts"}
IsUndo == entry \in {"bench_blockundo", "blockundo"}
IsBench == entry \in {"bench_blockundo", "bench_spenttxouts"}

\* Compact-size counts at the cursor: 0..2, 256 and a non-minimal 1 (0xFD),
\* 65536 (0xFE), 2^64 - 1 and a non-minimal 1 (0xFF).
CountEncodings ==
    { <<0>>, <<1>>, <<2>>,
      <<253, 0, 1>>, <<253, 1, 0>>,
      <<254, 0, 0, 1, 0>>,
      <<255, 255, 255, 255, 255, 255, 255, 255, 255>>,
      <<255, 1, 0, 0, 0, 0, 0, 0, 0>> }

\* The height marker: 0 and ten bytes on which n += 1 overflows.
HeightEncodings ==
    { <<0>>,
      <<254, 254, 254, 254, 254, 254, 254, 254, 254, 255, 0>> }

\* The reserved field: 0, 1.
ReservedEncodings == { <<0>>, <<1>> }

\* The compressed amount: 0, 50, and 184467440740 (the first input whose
\* product passes 2^64 - 1).
AmountEncodings ==
    { <<0>>, <<50>>, <<132, 174, 151, 246, 135, 100>> }

\* The script discriminator: the six templates, raw scripts of 0 and 1
\* bytes, a raw script of 2^32 - 6 bytes and one of 2^63 + 7 - 6 bytes.
ScriptLenEncodings ==
    { <<0>>, <<1>>, <<2>>, <<3>>, <<4>>, <<5>>, <<6>>, <<7>>,
      <<142, 254, 254, 255, 0>>,
      <<254, 254, 254, 254, 254, 254, 254, 255, 7>> }

\* The payload's bytes are all one byte of PayloadBytes.
PayloadBytes == {17}

\* A TxOut's value at the cursor, little-endian: 0, 5000000000, 2^64 - 1.
ValueEncodings ==
    { <<0, 0, 0, 0, 0, 0, 0, 0>>,
      <<0, 242, 5, 42, 1, 0, 0, 0>>,
      <<255, 255, 255, 255, 255, 255, 255, 255>> }

Min(a, b) == IF a < b THEN a ELSE b

\* i < a for a natural i and a u64 a.
LtNat(i, a) == IF IsSmall(a) THEN i < ToNat(a) ELSE TRUE

\* A little-endian byte string of 2, 4 or 8 bytes as a u64.
FromLE(bs) ==
    [i \in 1..U64Limbs |->
        IF 2 * i <= Len(bs) THEN bs[2 * i - 1] + 256 * bs[2 * i] ELSE 0]

\* VarInt::consensus_decode (rust-bitcoin) on the encoding at the cursor,
\* of which `avail` bytes are in the buffer: one byte below 0xFD is the
\* value; 0xFD, 0xFE, 0xFF are followed by a u16, u32, u64 that must not
\* fit the shorter form.
compact_size_decode(enc, avail) ==
    IF avail = 0
    THEN [out |-> "truncated", used |-> 0, v |-> Zero(U64Limbs)]
    ELSE LET n == enc[1]
             w == IF n = 255 THEN 8 ELSE IF n = 254 THEN 4 ELSE IF n = 253 THEN 2 ELSE 0
             x == FromLE(SubSeq(enc, 2, 1 + w))
             minimal == IF n = 255 THEN x[3] # 0 \/ x[4] # 0
                        ELSE IF n = 254 THEN x[2] # 0
                        ELSE x[1] >= 253
         IN  IF w = 0 THEN [out |-> "ok", used |-> 1, v |-> FromNat(U64Limbs, n)]
             ELSE IF avail < 1 + w
                  THEN [out |-> "truncated", used |-> avail, v |-> Zero(U64Limbs)]
             ELSE IF ~minimal
                  THEN [out |-> "nonminimal", used |-> 1 + w, v |-> x]
             ELSE [out |-> "ok", used |-> 1 + w, v |-> x]

\* varint_decode on the bytes bs the buffer holds at the cursor: the loop
\* until a byte without 0x80 or the end; `wrapped` when an n += 1
\* overflowed, with the bytes read up to that one in `used_at_overflow`.
RECURSIVE varint_run(_, _, _)
varint_run(n, bs, k) ==
    IF bs = <<>>
    THEN [out |-> "truncated", n |-> n, used |-> k, wrapped |-> FALSE,
          used_at_overflow |-> 0]
    ELSE LET r == varint_step(n, Head(bs))
         IN  IF r.done
             THEN [out |-> "returned", n |-> r.n, used |-> k + 1, wrapped |-> FALSE,
                   used_at_overflow |-> 0]
             ELSE LET rest == varint_run(r.n, Tail(bs), k + 1)
                  IN  IF r.overflow
                      THEN [rest EXCEPT !.wrapped = TRUE, !.used_at_overflow = k + 1]
                      ELSE rest

varint_decode(bs) == varint_run(Zero(U64Limbs), bs, 0)

\* The counts the model draws for the buffer at hand.
CountsAtCursor == IF size <= ShortMax THEN CountEncodings ELSE {<<0>>, <<1>>}

\* A cursor that hands out bytes the buffer does not hold.
AtCursor_past_end(enc) == enc

\* The bytes of an encoding that the buffer still holds.
AtCursor(enc) == SubSeq(enc, 1, Min(Len(enc), size - pos))

SPECIAL_SCRIPTS == 6

\* script_decode's `let size = match script_type { 0 | 1 => 20, 2..=5 => 32 }`
payload_size(script_type) == IF script_type \in {0, 1} THEN 20 ELSE 32

\* Opcodes and push lengths of the builder.
OP_DUP == 118
OP_HASH160 == 169
OP_EQUALVERIFY == 136
OP_EQUAL == 135
OP_CHECKSIG == 172

\* Builder::push_slice for a slice shorter than 0x4c bytes: its length, then
\* the bytes.
push_slice(bytes) == <<Len(bytes)>> \o bytes

\* PublicKey::to_bytes of an uncompressed key: 0x04, x, y.  The model does
\* not compute the curve point: y stands as 32 zero bytes, only its length
\* is meant.
uncompressed_key(bytes) == <<4>> \o SubSeq(bytes, 2, 33) \o [i \in 1..32 |-> 0]

\* decompress_script for a payload that PublicKey::from_slice accepts.
decompress_script(script_type, bytes) ==
    IF script_type = 0
    THEN <<OP_DUP, OP_HASH160>> \o push_slice(bytes) \o <<OP_EQUALVERIFY, OP_CHECKSIG>>
    ELSE IF script_type = 1
    THEN <<OP_HASH160>> \o push_slice(bytes) \o <<OP_EQUAL>>
    ELSE IF script_type \in {2, 3}
    THEN push_slice(<<script_type>> \o bytes) \o <<OP_CHECKSIG>>
    ELSE push_slice(uncompressed_key(<<script_type - 2>> \o bytes)) \o <<OP_CHECKSIG>>

is_p2pkh(s) == /\ Len(s) = 25
               /\ s[1] = OP_DUP /\ s[2] = OP_HASH160 /\ s[3] = 20
               /\ s[24] = OP_EQUALVERIFY /\ s[25] = OP_CHECKSIG
is_p2sh(s) == /\ Len(s) = 23
              /\ s[1] = OP_HASH160 /\ s[2] = 20 /\ s[23] = OP_EQUAL
is_p2pk(s) == \/ Len(s) = 67 /\ s[1] = 65 /\ s[67] = OP_CHECKSIG
              \/ Len(s) = 35 /\ s[1] = 33 /\ s[35] = OP_CHECKSIG

\* Stats::default(); blockundo.rs names the fields total, value, by_type and
\* has no scripts, spenttxouts.rs has total and value only: there the
\* fields a main does not have stay as they start.
StatsDefault ==
    [count |-> 0, count_by_type |-> [i \in 1..7 |-> 0],
     spent |-> Zero(U128Limbs), scripts |-> 0]

\* stats.spent += v as u128
AddSpent(st, v) == [st EXCEPT !.spent = Low(AddC(st.spent, Widen(v), 0))]

\* A script_decode that counts the script and leaves the histogram alone.
CountScript_no_histogram(st, n) == [st EXCEPT !.count = @ + 1]

\* stats.count += 1; stats.count_by_type[len] += 1 or [6] += 1
CountScript(st, n) ==
    LET b == IF LtNat(SPECIAL_SCRIPTS - 1, n) THEN 7 ELSE ToNat(n) + 1
    IN  [st EXCEPT !.count = @ + 1, !.count_by_type[b] = @ + 1]

\* len - SPECIAL_SCRIPTS for len >= SPECIAL_SCRIPTS
RECURSIVE SubSmall(_, _)
SubSmall(a, k) == IF k = 0 THEN a ELSE SubSmall(Dec(a), k - 1)

\* vec![0; len] panics with a capacity overflow above isize::MAX bytes.
OverIsizeMax(a) == a[U64Limbs] >= 32768

\* vec![0; len] of 2^31 bytes or more, asked for by a buffer that does not
\* hold them: the allocator may refuse, and the process aborts.
MayNotAllocate(a) == ~IsSmall(a) /\ ~OverIsizeMax(a)

DecodeInit ==
    /\ entry \in Entries
    /\ size \in Sizes
    /\ pos = 0
    /\ pc = "tx_count"
    /\ tx_count = Zero(U64Limbs)
    /\ tx_i = 0
    /\ txin_count = Zero(U64Limbs)
    /\ txin_j = 0
    /\ stats = StatsDefault
    /\ script = <<>>
    /\ result = "running"
    /\ failure = "none"
    /\ accepted = "pending"
    /\ stats0 = StatsDefault
    /\ fields = <<>>
    /\ amount = Zero(U64Limbs)
    /\ len = Zero(U64Limbs)
    /\ claimed = Zero(U128Limbs)
    /\ eof = FALSE

DecodeIdle ==
    /\ entry = "none"
    /\ size = 0
    /\ pos = 0
    /\ pc = "idle"
    /\ tx_count = Zero(U64Limbs)
    /\ tx_i = 0
    /\ txin_count = Zero(U64Limbs)
    /\ txin_j = 0
    /\ stats = StatsDefault
    /\ script = <<>>
    /\ result = "idle"
    /\ failure = "none"
    /\ accepted = "pending"
    /\ stats0 = StatsDefault
    /\ fields = <<>>
    /\ amount = Zero(U64Limbs)
    /\ len = Zero(U64Limbs)
    /\ claimed = Zero(U128Limbs)
    /\ eof = FALSE

\* The `?` on a read that met the end of the buffer: the reader is at the
\* end, the decoder returns the error.
Truncated ==
    /\ result' = "err"
    /\ failure' = "Io(UnexpectedEof)"
    /\ pos' = size
    /\ eof' = TRUE

\* The `?` on another error, or a panic, after `used` bytes.
Stops(how, what, used) ==
    /\ result' = how
    /\ failure' = what
    /\ pos' = pos + used
    /\ eof' = eof

Goes(used, to) ==
    /\ pos' = pos + used
    /\ pc' = to
    /\ UNCHANGED <<result, failure, eof>>

\* let tx_count = VarInt::consensus_decode(&mut d)?.0;
ReadTxCount ==
    /\ result = "running" /\ pc = "tx_count"
    /\ \E enc \in CountsAtCursor :
         LET r == compact_size_decode(enc, Len(AtCursor(enc)))
         IN  \/ /\ r.out = "ok"
                /\ tx_count' = r.v
                /\ Goes(r.used, "tx_loop")
             \/ /\ r.out = "truncated"
                /\ Truncated
                /\ UNCHANGED <<pc, tx_count>>
             \/ /\ r.out = "nonminimal"
                /\ Stops("err", "NonMinimalVarInt", r.used)
                /\ UNCHANGED <<pc, tx_count>>
    /\ UNCHANGED <<entry, size, tx_i, txin_count, txin_j, stats, script, accepted,
                   stats0, fields, amount, len, claimed>>
    /\ UNCHANGED <<varint_vars, amount_vars, main_vars>>

\* for _ in 0..tx_count { ... } Ok(())
TxLoop ==
    /\ result = "running" /\ pc = "tx_loop"
    /\ \/ /\ LtNat(tx_i, tx_count)
          /\ tx_i' = tx_i + 1
          /\ pc' = "txin_count"
          /\ UNCHANGED result
       \/ /\ ~LtNat(tx_i, tx_count)
          /\ result' = "ok"
          /\ UNCHANGED <<tx_i, pc>>
    /\ UNCHANGED <<entry, size, pos, tx_count, txin_count, txin_j, stats, script,
                   failure, accepted, stats0, fields, amount, len, claimed, eof>>
    /\ UNCHANGED <<varint_vars, amount_vars, main_vars>>

\* let txin_count = VarInt::consensus_decode(&mut d)?.0;
ReadTxinCount ==
    /\ result = "running" /\ pc = "txin_count"
    /\ \E enc \in CountsAtCursor :
         LET r == compact_size_decode(enc, Len(AtCursor(enc)))
         IN  \/ /\ r.out = "ok"
                /\ txin_count' = r.v
                /\ txin_j' = 0
                /\ claimed' = Low(AddC(claimed, Widen(r.v), 0))
                /\ Goes(r.used, "txin_loop")
             \/ /\ r.out = "truncated"
                /\ Truncated
                /\ UNCHANGED <<pc, txin_count, txin_j, claimed>>
             \/ /\ r.out = "nonminimal"
                /\ Stops("err", "NonMinimalVarInt", r.used)
                /\ UNCHANGED <<pc, txin_count, txin_j, claimed>>
    /\ UNCHANGED <<entry, size, tx_count, tx_i, stats, script, accepted, stats0, fields,
                   amount, len>>
    /\ UNCHANGED <<varint_vars, amount_vars, main_vars>>

\* for _ in 0..txin_count { ... }: the next record starts, or the loop ends.
TxinLoop ==
    /\ result = "running" /\ pc = "txin_loop"
    /\ \/ /\ LtNat(txin_j, txin_count)
          /\ txin_j' = txin_j + 1
          /\ pc' = IF IsUndo THEN "height" ELSE "txout"
          /\ stats0' = stats
          /\ fields' = <<>>
       \/ /\ ~LtNat(txin_j, txin_count)
          /\ pc' = "tx_loop"
          /\ UNCHANGED <<txin_j, stats0, fields>>
    /\ UNCHANGED <<entry, size, pos, tx_count, tx_i, txin_count, stats, script, result,
                   failure, accepted, amount, len, claimed, eof>>
    /\ UNCHANGED <<varint_vars, amount_vars, main_vars>>

\* What the rest of the record leaves alone while one of its fields is read.
\* In the actions below r is the one value the call of varint_decode
\* returned, and a the one value decompress_amount returned.
FieldFrame ==
    /\ UNCHANGED <<entry, size, tx_count, tx_i, txin_count, txin_j, accepted, stats0,
                   claimed>>
    /\ UNCHANGED <<varint_vars, amount_vars, main_vars>>

\* let _height_coinbase = varint_decode(&mut d)?;
ReadHeight ==
    /\ result = "running" /\ pc = "height"
    /\ \E enc \in HeightEncodings :
         \E r \in {varint_decode(AtCursor(enc))} :
             \/ /\ r.out = "returned"
                /\ fields' = Append(fields, "height")
                /\ Goes(r.used, "reserved")
             \/ /\ r.out = "truncated"
                /\ Truncated
                /\ UNCHANGED <<pc, fields>>
             \/ /\ r.wrapped
                /\ Stops("panic", "attempt to add with overflow", r.used_at_overflow)
                /\ UNCHANGED <<pc, fields>>
    /\ UNCHANGED <<stats, script, amount, len>>
    /\ FieldFrame

\* assert_eq!(varint_decode(&mut d)?, 0);
ReadReserved ==
    /\ result = "running" /\ pc = "reserved"
    /\ \E enc \in ReservedEncodings :
         \E r \in {varint_decode(AtCursor(enc))} :
             \/ /\ r.out = "returned" /\ IsZero(r.n)
                /\ fields' = Append(fields, "reserved")
                /\ Goes(r.used, "amount")
             \/ /\ r.out = "returned" /\ ~IsZero(r.n)
                /\ fields' = Append(fields, "reserved")
                /\ Stops("panic", "assert_eq failed: reserved field", r.used)
                /\ UNCHANGED pc
             \/ /\ r.out = "truncated"
                /\ Truncated
                /\ UNCHANGED <<pc, fields>>
    /\ UNCHANGED <<stats, script, amount, len>>
    /\ FieldFrame

\* stats.spent += decompress_amount(varint_decode(&mut d)? as u64) as u128;
ReadAmount ==
    /\ result = "running" /\ pc = "amount"
    /\ \E enc \in AmountEncodings :
         \E r \in {varint_decode(AtCursor(enc))} : \E a \in {decompress_amount(r.n)} :
             \/ /\ r.out = "returned"
                /\ stats' = AddSpent(stats, a.n)
                /\ fields' = Append(fields, "amount")
                /\ amount' = r.n
                /\ Goes(r.used, "script_len")
             \/ /\ r.out = "returned" /\ a.overflow
                /\ amount' = r.n
                /\ Stops("panic", "attempt to multiply with overflow", r.used)
                /\ UNCHANGED <<pc, fields, stats>>
             \/ /\ r.out = "truncated"
                /\ Truncated
                /\ UNCHANGED <<pc, fields, stats, amount>>
    /\ UNCHANGED <<script, len>>
    /\ FieldFrame

\* script_decode: let len = varint_decode(d)?; stats.count += 1; then the
\* bucket of len, before the payload is read.
ReadScriptLen ==
    /\ result = "running" /\ pc = "script_len"
    /\ \E enc \in ScriptLenEncodings :
         \E r \in {varint_decode(AtCursor(enc))} :
             \/ /\ r.out = "returned"
                /\ stats' = CountScript(stats, r.n)
                /\ fields' = Append(fields, "script_len")
                /\ len' = r.n
                /\ Goes(r.used, "payload")
             \/ /\ r.out = "truncated"
                /\ Truncated
                /\ UNCHANGED <<pc, fields, stats, len>>
    /\ UNCHANGED <<script, amount>>
    /\ FieldFrame

\* stats.scripts += script.len() as u64 in bench.rs; blockundo.rs drops the
\* script.
AddScript(st, s) == IF entry = "blockundo" THEN st ELSE [st EXCEPT !.scripts = @ + Len(s)]

\* script_decode after the bucket: decode_bytes(d, size)? and
\* decompress_script, or decode_bytes(d, len - SPECIAL_SCRIPTS)? for a raw
\* script; then the caller's stats.scripts.
ReadPayload ==
    /\ result = "running" /\ pc = "payload"
    /\ LET template == ~LtNat(SPECIAL_SCRIPTS - 1, len)
           script_type == ToNat(len)
           n == IF template THEN FromNat(U64Limbs, payload_size(script_type))
                ELSE SubSmall(len, SPECIAL_SCRIPTS)
       IN  \/ /\ ~OverIsizeMax(n) /\ ~LtNat(size - pos, n)
              /\ \E fill \in PayloadBytes :
                   LET bytes == [i \in 1..ToNat(n) |-> fill]
                       s == IF template THEN decompress_script(script_type, bytes)
                            ELSE bytes
                   IN  IF template /\ ~(is_p2pk(s) \/ is_p2pkh(s) \/ is_p2sh(s))
                       THEN /\ Stops("panic", "assertion failed: script.is_p2pk()", ToNat(n))
                            /\ UNCHANGED <<pc, fields, stats, script>>
                       ELSE /\ script' = s
                            /\ stats' = AddScript(stats, s)
                            /\ fields' = Append(fields, "payload")
                            /\ Goes(ToNat(n), "txin_loop")
           \/ /\ template /\ script_type \in {4, 5} /\ ~LtNat(size - pos, n)
              /\ Stops("panic", "bad PublicKey", ToNat(n))
              /\ UNCHANGED <<pc, fields, stats, script>>
           \/ /\ ~OverIsizeMax(n) /\ LtNat(size - pos, n)
              /\ Truncated
              /\ UNCHANGED <<pc, fields, stats, script>>
           \/ /\ OverIsizeMax(n)
              /\ Stops("panic", "capacity overflow", 0)
              /\ UNCHANGED <<pc, fields, stats, script>>
           \/ /\ MayNotAllocate(n)
              /\ Stops("panic", "memory allocation failed", 0)
              /\ UNCHANGED <<pc, fields, stats, script>>
    /\ UNCHANGED <<amount, len>>
    /\ FieldFrame

\* spenttxouts_decode: let out = TxOut::consensus_decode_from_finite_reader(d)?
\* (a u64 value, little-endian, then a compact-size length and that many
\* script bytes); stats.count += 1; stats.spent += value; and in bench.rs
\* stats.scripts += the script's length.
ReadTxOut ==
    /\ result = "running" /\ pc = "txout"
    /\ \E val \in ValueEncodings, enc \in CountEncodings, fill \in PayloadBytes :
         LET left == size - pos
             r == compact_size_decode(enc, Min(Len(enc), left - 8))
         IN  \/ /\ left >= 8 /\ r.out = "ok" /\ ~LtNat(left - 8 - r.used, r.v)
                /\ script' = [i \in 1..ToNat(r.v) |-> fill]
                /\ stats' = LET st == AddSpent([stats EXCEPT !.count = @ + 1], FromLE(val))
                            IN  IF entry = "spenttxouts" THEN st
                                ELSE [st EXCEPT !.scripts = @ + ToNat(r.v)]
                /\ fields' = <<"txout">>
                /\ Goes(8 + r.used + ToNat(r.v), "txin_loop")
             \/ /\ \/ left < 8
                   \/ r.out = "truncated"
                   \/ r.out = "ok" /\ LtNat(left - 8 - r.used, r.v)
                /\ Truncated
                /\ UNCHANGED <<pc, fields, stats, script>>
             \/ /\ left >= 8 /\ r.out = "nonminimal"
                /\ Stops("err", "NonMinimalVarInt", 8 + r.used)
                /\ UNCHANGED <<pc, fields, stats, script>>
    /\ UNCHANGED <<amount, len>>
    /\ FieldFrame

\* The caller after Ok(()): blockundo.rs and spenttxouts.rs
\* assert_eq!(c.position(), size) and go on with height += 1; bench.rs goes
\* on with height += 1.
CallerCheck ==
    /\ result = "ok" /\ accepted = "pending"
    /\ \/ /\ IsBench
          /\ accepted' = "yes"
          /\ UNCHANGED failure
       \/ /\ ~IsBench /\ pos = size
          /\ accepted' = "yes"
          /\ UNCHANGED failure
       \/ /\ ~IsBench /\ pos # size
          /\ accepted' = "no"
          /\ failure' = "assert_eq failed: position"
    /\ UNCHANGED <<entry, size, pos, pc, tx_count, tx_i, txin_count, txin_j, stats,
                   script, result, stats0, fields, amount, len, claimed, eof>>
    /\ UNCHANGED <<varint_vars, amount_vars, main_vars>>

VarintIdle ==
    /\ v_bytes = <<>>
    /\ v_n = Zero(U64Limbs)
    /\ v_out = "idle"

\* main is not running.
MainIdle ==
    /\ m_entry = "none"
    /\ m_pc = "idle"
    /\ height = 0
    /\ start_height = 0
    /\ offset = 0
    /\ fetched = <<>>

Init == DecodeInit /\ VarintIdle /\ AmountIdle /\ MainIdle
Next ==
    \/ ReadTxCount \/ TxLoop \/ ReadTxinCount \/ TxinLoop
    \/ ReadHeight \/ ReadReserved \/ ReadAmount \/ ReadScriptLen \/ ReadPayload
    \/ ReadTxOut
    \/ CallerCheck
Spec == Init /\ [][Next]_vars

\* The decoder is one thread that runs until it returns or panics.
SpecLive == Spec /\ WF_vars(Next)

InitVarint == VarintInit /\ AmountIdle /\ DecodeIdle /\ MainIdle
NextVarint == VarintByte \/ VarintEof
SpecVarint == InitVarint /\ [][NextVarint]_vars

InitAmount == AmountInit /\ VarintIdle /\ DecodeIdle /\ MainIdle
NextAmount == AmountApply
SpecAmount == InitAmount /\ [][NextAmount]_vars

(***************************************************************************)
(* The main loops of blockundo.rs and spenttxouts.rs: chunks of chunk_size *)
(* blocks from FirstHeight up to EndHeight.  What a block's fetch and      *)
(* decode do to the buffer is the decoder's part above; here a turn of the *)
(* for loop either goes through or ends main (an HTTP error, a decoding    *)
(* error through `?`, or the position assertion).                          *)
(***************************************************************************)
Mains == {"blockundo", "spenttxouts"}
FirstHeight == 700000
EndHeight == 710000
chunk_size == 1000

\* let mut height = 700000;
MainInit ==
    /\ m_entry \in Mains
    /\ m_pc = "while"
    /\ height = FirstHeight
    /\ start_height = 0
    /\ offset = 0
    /\ fetched = <<>>

\* while height < 710000 { ...; let start_height = height; for ... } Ok(())
WhileHead ==
    /\ m_pc = "while"
    /\ \/ /\ height < EndHeight
          /\ start_height' = height
          /\ offset' = 0
          /\ m_pc' = "for"
       \/ /\ ~(height < EndHeight)
          /\ m_pc' = "returned"
          /\ UNCHANGED <<start_height, offset>>
    /\ UNCHANGED <<m_entry, height, fetched>>
    /\ UNCHANGED <<varint_vars, amount_vars, decode_vars>>

\* One turn of `for offset in 0..chunk_size`: the block hash of
\* height + offset is asked for, its data fetched and decoded, and
\* height += 1; or the turn ends main.
ForBody ==
    /\ m_pc = "for" /\ offset < chunk_size
    /\ fetched' = Append(fetched, height + offset)
    /\ \/ /\ height' = height + 1
          /\ offset' = offset + 1
          /\ UNCHANGED m_pc
       \/ /\ m_pc' = "failed"
          /\ UNCHANGED <<height, offset>>
    /\ UNCHANGED <<m_entry, start_height>>
    /\ UNCHANGED <<varint_vars, amount_vars, decode_vars>>

\* The for loop is through: println!("[{}..{}) ...", start_height, height, ...)
PrintChunk ==
    /\ m_pc = "for" /\ ~(offset < chunk_size)
    /\ m_pc' = "while"
    /\ UNCHANGED <<m_entry, height, start_height, offset, fetched>>
    /\ UNCHANGED <<varint_vars, amount_vars, decode_vars>>

InitMain == MainInit /\ VarintIdle /\ AmountIdle /\ DecodeIdle
NextMain == WhileHead \/ ForBody \/ PrintChunk
SpecMain == InitMain /\ [][NextMain]_vars

(***************************************************************************)
(* Claims about varint_decode (SpecVarint)                                 *)
(***************************************************************************)
Continues(bs) == \A i \in 1..Len(bs) : bs[i] >= 128

\* The value the algorithm of the claim gives for a whole stream: from 0,
\* acc * 128 + (b mod 128), plus 1 after a byte >= 128, within 64 bits.
RECURSIVE ClaimFold(_, _)
ClaimFold(acc, bs) ==
    IF bs = <<>> THEN acc
    ELSE LET b == Head(bs)
             c == IF b >= 128 THEN 1 ELSE 0
         IN  ClaimFold(Low(MulAddC(Low(MulAddC(acc, 128, b % 128)), 1, c)), Tail(bs))

\* C4 as stated: varint_decode gives 0 on [0x00], 127 on [0x7F] and 128 on
\* [0x81, 0x00].
C4_Original ==
    v_out = "returned" =>
        /\ v_bytes = <<0>> => v_n = FromNat(U64Limbs, 0)
        /\ v_bytes = <<127>> => v_n = FromNat(U64Limbs, 127)
        /\ v_bytes = <<129, 0>> => v_n = FromNat(U64Limbs, 128)

\* C4 amended: varint_decode gives 0 on [0x00], 127 on [0x7F], 256 on
\* [0x81, 0x00], and 128 on [0x80, 0x00].
C4_Vectors ==
    v_out = "returned" =>
        /\ v_bytes = <<0>> => v_n = FromNat(U64Limbs, 0)
        /\ v_bytes = <<127>> => v_n = FromNat(U64Limbs, 127)
        /\ v_bytes = <<129, 0>> => v_n = FromNat(U64Limbs, 256)
        /\ v_bytes = <<128, 0>> => v_n = FromNat(U64Limbs, 128)

C4_Witness ==
    /\ v_out = "returned"
    /\ v_bytes = <<129, 0>>
    /\ v_n = <<256, 0, 0, 0>>

\* C5 as stated: on every byte stream varint_decode folds the bytes as the
\* claim's algorithm does, returns on the first byte without bit 0x80
\* having consumed exactly the bytes up to it, and otherwise fails with a
\* truncated-input error: it has no other outcome.
C5_Algorithm ==
    /\ v_out \in {"reading", "returned", "truncated"}
    /\ v_out \in {"reading", "truncated"} =>
          /\ Continues(v_bytes)
          /\ v_n = ClaimFold(Zero(U64Limbs), v_bytes)
    /\ v_out = "returned" =>
          /\ v_bytes # <<>>
          /\ Continues(SubSeq(v_bytes, 1, Len(v_bytes) - 1))
          /\ v_bytes[Len(v_bytes)] < 128
          /\ v_n = ClaimFold(Zero(U64Limbs), v_bytes)

(***************************************************************************)
(* Claims about decompress_amount (SpecAmount)                             *)
(***************************************************************************)
\* Decimal numerals, most significant digit first; 0 is the empty numeral.
RECURSIVE ToDecimal(_)
ToDecimal(a) ==
    IF IsZero(a) THEN <<>>
    ELSE LET dm == DivModSmall(a, 10) IN ToDecimal(dm.q) \o <<dm.r>>

RECURSIVE Strip(_)
Strip(d) == IF d # <<>> /\ Head(d) = 0 THEN Strip(Tail(d)) ELSE d

Front(d) == SubSeq(d, 1, Len(d) - 1)
Last(d) == d[Len(d)]

\* d - 1 for a numeral d # 0, and d + 1.
RECURSIVE DecimalPred(_)
DecimalPred(d) == IF Last(d) > 0 THEN Front(d) \o <<Last(d) - 1>>
                  ELSE DecimalPred(Front(d)) \o <<9>>

RECURSIVE DecimalSucc(_)
DecimalSucc(d) == IF d = <<>> THEN <<1>>
                  ELSE IF Last(d) < 9 THEN Front(d) \o <<Last(d) + 1>>
                  ELSE DecimalSucc(Front(d)) \o <<0>>

\* Long division of a numeral by a digit k.
RECURSIVE DecimalDivMod(_, _)
DecimalDivMod(d, k) ==
    IF d = <<>> THEN [q |-> <<>>, r |-> 0]
    ELSE LET p == DecimalDivMod(Front(d), k)
             t == p.r * 10 + Last(d)
         IN  [q |-> p.q \o <<t \div k>>, r |-> t % k]

\* The reference rule of the claim on numerals: 0 for 0; otherwise with
\* x' = x - 1, e = x' mod 10, q = x' div 10: n followed by e zeros, where
\* n = (q div 9) * 10 + (q mod 9) + 1 when e < 9 and n = q + 1 when e = 9.
ReferenceAmount(x) ==
    IF x = <<>> THEN <<>>
    ELSE LET x1 == Strip(DecimalPred(x))
             e  == IF x1 = <<>> THEN 0 ELSE Last(x1)
             q  == IF x1 = <<>> THEN <<>> ELSE Front(x1)
             dm == DecimalDivMod(q, 9)
             n  == IF e < 9 THEN Strip(dm.q) \o <<dm.r + 1>>
                   ELSE DecimalSucc(q)
         IN  n \o [i \in 1..e |-> 0]

U64MaxDecimal == <<1, 8, 4, 4, 6, 7, 4, 4, 0, 7, 3, 7, 0, 9, 5, 5, 1, 6, 1, 5>>

RECURSIVE DecimalLeq(_, _)
DecimalLeq(a, b) ==
    IF Len(a) # Len(b) THEN Len(a) < Len(b)
    ELSE IF a = <<>> THEN TRUE
    ELSE IF Head(a) # Head(b) THEN Head(a) < Head(b)
    ELSE DecimalLeq(Tail(a), Tail(b))

FitsU64(d) == DecimalLeq(d, U64MaxDecimal)

\* C6: for every input x whose result fits in 64 bits, decompress_amount(x)
\* returns the value of the reference rule (0 for 0, else n * 10^e), and
\* decompress_amount(50) = 5000000000.
C6_ReferenceRule ==
    /\ FitsU64(ReferenceAmount(ToDecimal(a_x))) /\ a_out.state # "called" =>
          /\ a_out.state = "returned"
          /\ ~a_out.wrapped
          /\ ToDecimal(a_out.n) = ReferenceAmount(ToDecimal(a_x))
    /\ a_x = FromNat(U64Limbs, 50) /\ a_out.state # "called" =>
          ToDecimal(a_out.n) = <<5, 0, 0, 0, 0, 0, 0, 0, 0, 0>>

C6_Witness ==
    /\ a_x = FromNat(U64Limbs, 50)
    /\ a_out.state = "returned"
    /\ a_out.n = <<61952, 10757, 1, 0>>

\* C7 as stated: decompress_amount returns for every 64-bit input without
\* panicking, and no product n * 10 of its loop passes 2^64 - 1 or wraps.
C7_Total ==
    /\ a_out.state # "panic"
    /\ ~a_out.wrapped

(***************************************************************************)
(* Claims about the decoders on a buffer (Spec, SpecLive)                  *)
(***************************************************************************)
\* The statements of blockundo_decode that read one record.
RecordStages == {"height", "reserved", "amount", "script_len", "payload"}
RecordFields == <<"height", "reserved", "amount", "script_len", "payload">>

\* C1 as stated: whenever the decoding of one undo record fails, at any of
\* its stages, every Stats field has the value it had just before the
\* record's first byte was read.
C1_NoPartialStats ==
    IsUndo /\ result \in {"err", "panic"} /\ pc \in RecordStages => stats = stats0

\* The reserved field of the current record has been read and is not 0.
ReservedNonzero == IsUndo /\ pc = "reserved" /\ fields = <<"height", "reserved">>

\* C2 as stated: a record whose reserved field decodes to a nonzero value
\* makes blockundo_decode return the failure ReservedFieldNonzero to its
\* caller, with Stats as they were before the record, and no later record
\* is decoded.
C2_ReservedFieldNonzero ==
    ReservedNonzero =>
        /\ result = "err"
        /\ failure = "ReservedFieldNonzero"
        /\ stats = stats0

\* The payload the claim gives for discriminator v.
ClaimedPayload(v) == IF v \in {0, 1} THEN 20 ELSE IF v \in 2..5 THEN 32 ELSE v - 6

\* C3: the step that completes an undo record with discriminator v has read
\* the fields in the order height marker, reserved, compressed amount,
\* discriminator, payload; the payload is 20 bytes for v in {0, 1}, 32 for
\* v in 2..5 and v - 6 for v >= 6; and Stats differ from their value before
\* the record by exactly count + 1, bucket v + 1 (bucket 6 for v >= 6),
\* spent + decompress_amount(amount) and, in bench.rs, scripts + the script
\* length, which is 25 for v = 0, 23 for v = 1 and v - 6 for a raw script.
C3_RecordEffect ==
    [][ IsUndo /\ pc = "payload" /\ pc' = "txin_loop" =>
          IF ~IsSmall(len) THEN FALSE
          ELSE LET v == ToNat(len)
                   b == IF v < 6 THEN v ELSE 6
               IN  /\ fields' = RecordFields
                   /\ pos' - pos = ClaimedPayload(v)
                   /\ stats'.count = stats0.count + 1
                   /\ \A i \in 0..6 :
                        stats'.count_by_type[i + 1] =
                            stats0.count_by_type[i + 1] + (IF i = b THEN 1 ELSE 0)
                   /\ stats'.spent =
                        Low(AddC(stats0.spent, Widen(decompress_amount(amount).n), 0))
                   /\ v = 0 => Len(script') = 25
                   /\ v = 1 => Len(script') = 23
                   /\ v >= 6 => Len(script') = v - 6
                   /\ stats'.scripts =
                        IF entry = "bench_blockundo" THEN stats0.scripts + Len(script')
                        ELSE stats0.scripts
      ]_vars

C3_Witness ==
    /\ entry = "bench_blockundo"
    /\ pc = "txin_loop"
    /\ fields = RecordFields
    /\ len = FromNat(U64Limbs, 0)
    /\ amount = FromNat(U64Limbs, 50)
    /\ stats.count = 1
    /\ stats.count_by_type = <<1, 0, 0, 0, 0, 0, 0>>
    /\ stats.spent = <<61952, 10757, 1, 0, 0, 0, 0, 0>>
    /\ stats.scripts = 25

\* C8 as stated: in every entry point a buffer is accepted only if the
\* cursor position after decoding equals the buffer length.
C8_ExactlyConsumed == accepted = "yes" => pos = size

\* C9: on every buffer the decoder ends, in success or in failure, whatever
\* the counts claim; the cursor position never decreases and never passes
\* the buffer length; it succeeds only with every claimed transaction and
\* input decoded; and a read that meets the end of the buffer gives the
\* truncated-input failure.
C9_Terminates ==
    /\ <>(result # "running")
    /\ [][pos' >= pos]_vars
    /\ [](pos <= size)
    /\ [](result = "ok" =>
            /\ ~LtNat(tx_i, tx_count)
            /\ ~LtNat(txin_j, txin_count)
            /\ FromNat(U128Limbs, stats.count) = claimed)
    /\ [](eof => result = "err" /\ failure = "Io(UnexpectedEof)")

\* A transaction count of 2^64 - 1, input counts of 0, and the buffer ends.
C9_Witness ==
    /\ tx_count = U64Max
    /\ tx_i >= 2
    /\ IsZero(txin_count)
    /\ result = "err"
    /\ failure = "Io(UnexpectedEof)"
    /\ pos = size

(***************************************************************************)
(* Claims about the main loops (SpecMain)                                  *)
(***************************************************************************)
\* The heights asked for in the current chunk.
ChunkFetched == SubSeq(fetched, Len(fetched) - offset + 1, Len(fetched))

Once(seq, h) == Cardinality({i \in 1..Len(seq) : seq[i] = h}) = 1

\* C10 as stated: when a chunk's range [start_height, height) is printed,
\* the heights fetched in the chunk are exactly the chunk_size heights of
\* that range, each once; when main returns, every height of
\* [700000, 710000) has been fetched exactly once; and no height outside
\* that range is ever fetched.
C10_Heights ==
    /\ m_pc = "for" /\ ~(offset < chunk_size) =>
          /\ height - start_height = chunk_size
          /\ \A h \in start_height..(height - 1) : Once(ChunkFetched, h)
          /\ \A i \in 1..Len(ChunkFetched) :
                ChunkFetched[i] \in start_height..(height - 1)
    /\ m_pc = "returned" =>
          \A h \in FirstHeight..(EndHeight - 1) : Once(fetched, h)
    /\ \A i \in 1..Len(fetched) : fetched[i] \in FirstHeight..(EndHeight - 1)

=============================================================================
